---- MODULE Spec2Model ----
(***************************************************************************)
(* Model of the ai-service of Tyler-cat/sheduler: the ParseJobStore, the   *)
(* ProviderRouter (rollout, window quotas, concurrency cap, circuit        *)
(* breaker) and the ParseService lifecycle coordinator.                    *)
(*                                                                         *)
(* Python objects are references: the store, the background task and       *)
(* review_job all hold the SAME ParseJob object.  The heap of ParseJob     *)
(* objects is `objs`; the store's dictionary `jobs` maps a job id to a     *)
(* reference (an index of objs).                                           *)
(*                                                                         *)
(* The service runs on one asyncio event loop.  The locks of the store and  *)
(* of the router are held only across code that does not await, so they    *)
(* are never contended and a coroutine is suspended only where a           *)
(* background task starts and where it awaits the provider client.  A      *)
(* background task is modelled in three steps (store, router gates, client *)
(* completion), which allows every interleaving the event loop allows.     *)
(*                                                                         *)
(* Time is the monotonic clock in integer ticks.  Optional values are      *)
(* None == <<>> or Some(v) == <<v>>.  Confidences are in hundredths.       *)
(***************************************************************************)
EXTENDS Integers, Sequences, FiniteSets, TLC

\* ---------------------------------------------------------------- bounds
MaxJobs == 2
MaxCalls == 3
MaxBreakerCalls == 4
MaxTime == 1
MaxEvents == 1

\* ------------------------------------------------------------- constants
ReviewThreshold == 60

\* --------------------------------------------------------------- helpers
None == <<>>
Some(v) == <<v>>
IsNone(o) == o = <<>>
Val(o) == o[1]

EmptyDict == <<>>
DictGet(d, k, default) == IF k \in DOMAIN d THEN d[k] ELSE default
DictSet(d, k, v) == [x \in (DOMAIN d) \cup {k} |-> IF x = k THEN v ELSE d[x]]

Max(a, b) == IF a >= b THEN a ELSE b

\* ---------------------------------------------------------------- models
Provider == {"OPENAI", "OPENROUTER", "QWEN_LOCAL"}
JobStatus == {"PENDING", "RUNNING", "SUCCEEDED", "FAILED", "NEEDS_REVIEW"}
ReviewDecision == {"APPROVED", "REJECTED"}

Orgs == {"org-1", "org-2"}
Confidences == {59, 60}
ClientErrors == {"upstream failure"}

ParsedEvent(c) == [confidence |-> c]

RECURSIVE SeqsUpTo(_, _)
SeqsUpTo(S, n) ==
    IF n = 0 THEN {<<>>}
    ELSE LET shorter == SeqsUpTo(S, n - 1)
         IN  shorter \cup {Append(s, e) : s \in {t \in shorter : Len(t) = n - 1}, e \in S}

EventLists == SeqsUpTo({ParsedEvent(c) : c \in Confidences}, MaxEvents)

ParseJob(id, org_id, provider) ==
    [id |-> id, org_id |-> org_id, provider |-> provider, status |-> "PENDING",
     events |-> <<>>, error |-> None, metadata |-> EmptyDict]

mark_running_not_yet(job) == job

mark_running(job) == [job EXCEPT !.status = "RUNNING"]

mark_failed_without_message(job, message) == [job EXCEPT !.status = "FAILED"]

mark_failed(job, message) == [job EXCEPT !.status = "FAILED", !.error = Some(message)]

RECURSIVE any_low_confidence_inclusive(_)
any_low_confidence_inclusive(events) ==
    IF events = <<>> THEN FALSE
    ELSE IF Head(events).confidence <= ReviewThreshold THEN TRUE
    ELSE any_low_confidence_inclusive(Tail(events))

RECURSIVE any_low_confidence(_)
any_low_confidence(events) ==
    IF events = <<>> THEN FALSE
    ELSE IF Head(events).confidence < ReviewThreshold THEN TRUE
    ELSE any_low_confidence(Tail(events))

mark_succeeded(job, events) ==
    [job EXCEPT !.events = events,
                !.status = IF any_low_confidence(events) THEN "NEEDS_REVIEW" ELSE "SUCCEEDED"]

\* ------------------------------------------------------------- providers
ProviderRollout(allow_by_default, allowlist, blocklist) ==
    [allow_by_default |-> allow_by_default, allowlist |-> allowlist, blocklist |-> blocklist]

is_allowed_allowlist_first(rollout, org_id) ==
    IF org_id \in rollout.allowlist THEN TRUE
    ELSE IF rollout.allow_by_default THEN org_id \notin rollout.blocklist
    ELSE FALSE

is_allowed(rollout, org_id) ==
    IF rollout.allow_by_default THEN org_id \notin rollout.blocklist
    ELSE org_id \in rollout.allowlist

ProviderConfig(enabled, quota_per_window, window_seconds, org_quotas, concurrency_limit, failure_threshold, cooldown_seconds, rollout) ==
    [enabled |-> enabled, quota_per_window |-> quota_per_window,
     window_seconds |-> window_seconds, org_quotas |-> org_quotas,
     concurrency_limit |-> concurrency_limit, failure_threshold |-> failure_threshold,
     cooldown_seconds |-> cooldown_seconds, rollout |-> rollout]

ProviderState(t) ==
    [window_started_at |-> t, window_count |-> 0, org_counts |-> EmptyDict,
     inflight |-> 0, failure_count |-> 0, circuit_open_until |-> None]

\* The registrations the model starts from (ProviderRouter.register is called
\* before any request is served, as in main.py and the tests).
\* the quota + rollout registration of the tests
QuotaRollout ==
    "OPENAI" :> ProviderConfig(TRUE, Some(1), 1, Some("org-1" :> 1), None, 2, 1,
                               Some(ProviderRollout(FALSE, {"org-1"}, {})))

\* the concurrency + circuit breaker registration of the tests
ConcurrencyBreaker ==
    "OPENAI" :> ProviderConfig(TRUE, None, 2, None, Some(1), 2, 1, None)

\* a disabled provider
Disabled ==
    "OPENAI" :> ProviderConfig(FALSE, None, 2, None, None, 2, 1, None)

\* every gate at once, a blocklist rollout, a breaker tripping on one failure
EveryGate ==
    "OPENAI" :> ProviderConfig(TRUE, Some(2), 1, Some("org-1" :> 1 @@ "org-2" :> 2),
                               Some(1), 1, 2, Some(ProviderRollout(TRUE, {}, {"org-2"})))

\* two providers, an empty org_quotas mapping
TwoProviders ==
    "OPENAI" :> ProviderConfig(TRUE, None, 2, Some(EmptyDict), Some(2), 2, 1, None)
    @@ "OPENROUTER" :> ProviderConfig(TRUE, Some(1), 1, None, None, 1, 1, None)

\* a breaker tripping on the second failure, no quota, no concurrency limit,
\* the default window: the calls of one org may overlap and fail in any order
OverlappingFailures ==
    "OPENAI" :> ProviderConfig(TRUE, None, 60, None, None, 2, 1, None)

BreakerRegistrations == {OverlappingFailures}

\* registrations of the router runs and of the service runs
Registrations == {QuotaRollout, ConcurrencyBreaker, Disabled, EveryGate, TwoProviders}

ServiceRegistrations == {QuotaRollout, Disabled, EveryGate}

VARIABLES
    now,        \* time.monotonic()
    configs,    \* ProviderRouter._configs
    state,      \* ProviderRouter._state
    consec,     \* history: consecutive failed client calls per provider
    admitted,   \* history: client calls started per provider and org since the
                \* provider's last window reset
    submitted,  \* history: the org and the returned job of every submit_job, in order
    calls,      \* direct callers of router.parse_with: pc and locals
    objs,       \* heap of ParseJob objects, indexed by reference
    jobs,       \* ParseJobStore._jobs: job id -> reference
    tasks,      \* background tasks _execute_job(job_id): pc and locals
    breaker     \* history: per provider, whether the breaker has tripped, the
                \* client calls that failed since its last trip, and those of
                \* them that failed when the cooldown of that trip was over

vars == <<now, configs, state, consec, admitted, submitted, calls, objs, jobs, tasks, breaker>>

\* ----------------------------------------------------------------- store
\* ParseJobStore._jobs is a Python dict: an insertion-ordered mapping, here a
\* sequence of entries [key, value] with pairwise distinct keys.
RECURSIVE dict_index(_, _)
dict_index(d, k) ==
    IF d = <<>> THEN 0
    ELSE IF d[Len(d)].key = k THEN Len(d)
    ELSE dict_index(SubSeq(d, 1, Len(d) - 1), k)

dict_setitem(d, k, v) ==
    IF dict_index(d, k) = 0 THEN Append(d, [key |-> k, value |-> v])
    ELSE [d EXCEPT ![dict_index(d, k)].value = v]

dict_values(d) == [i \in 1..Len(d) |-> d[i].value]

\* store.get(job_id): the stored reference, or None
store_get(job_id) ==
    IF dict_index(jobs, job_id) = 0 THEN None ELSE Some(jobs[dict_index(jobs, job_id)].value)

\* store.update(job): self._jobs[job.id] = job
store_update(job) == dict_setitem(jobs, objs[job].id, job)

list_for_org_unfiltered(org_id) == dict_values(jobs)

\* store.list_for_org(org_id): the references of the matching jobs, in dict order
list_for_org(org_id) ==
    LET matches(job) == objs[job].org_id = org_id
    IN  SelectSeq(dict_values(jobs), matches)

create_job_not_stored(org_id, provider) ==
    LET job == Len(objs) + 1
        id  == Len(objs) + 1
    IN  [job  |-> job,
         objs |-> Append(objs, ParseJob(id, org_id, provider)),
         jobs |-> jobs]

\* store.create_job: a new object with a fresh id, stored under that id
create_job(org_id, provider) ==
    LET job == Len(objs) + 1
        id  == Len(objs) + 1
    IN  [job  |-> job,
         objs |-> Append(objs, ParseJob(id, org_id, provider)),
         jobs |-> dict_setitem(jobs, id, job)]

\* ---------------------------------------------------------------- router
Exception(type, msg) == [type |-> type, msg |-> msg]

circuit_is_open_whatever_the_time(st, t) ==
    /\ ~IsNone(st.circuit_open_until)
    /\ Val(st.circuit_open_until) # 0

circuit_is_open(st, t) ==
    /\ ~IsNone(st.circuit_open_until)
    /\ Val(st.circuit_open_until) # 0
    /\ t < Val(st.circuit_open_until)

rollout_denies(config, org_id) ==
    /\ ~IsNone(config.rollout)
    /\ ~is_allowed(Val(config.rollout), org_id)

window_reset_keeps_org_counts(st, config, t) ==
    IF t - st.window_started_at >= config.window_seconds
    THEN [st EXCEPT !.window_started_at = t, !.window_count = 0]
    ELSE st

window_reset(st, config, t) ==
    IF t - st.window_started_at >= config.window_seconds
    THEN [st EXCEPT !.window_started_at = t, !.window_count = 0, !.org_counts = EmptyDict]
    ELSE st

global_quota_exceeded_off_by_one(st, config) ==
    /\ ~IsNone(config.quota_per_window)
    /\ st.window_count > Val(config.quota_per_window)

global_quota_exceeded(st, config) ==
    /\ ~IsNone(config.quota_per_window)
    /\ st.window_count >= Val(config.quota_per_window)

org_quota_exceeded(st, config, org_id) ==
    /\ ~IsNone(config.org_quotas)
    /\ Val(config.org_quotas) # EmptyDict
    /\ org_id \in DOMAIN Val(config.org_quotas)
    /\ DictGet(st.org_counts, org_id, 0) >= Val(config.org_quotas)[org_id]

concurrency_limit_reached_off_by_one(st, config) ==
    /\ ~IsNone(config.concurrency_limit)
    /\ st.inflight > Val(config.concurrency_limit)

concurrency_limit_reached(st, config) ==
    /\ ~IsNone(config.concurrency_limit)
    /\ st.inflight >= Val(config.concurrency_limit)

admit(st, org_id) ==
    [st EXCEPT !.window_count = @ + 1,
               !.org_counts = DictSet(@, org_id, DictGet(@, org_id, 0) + 1),
               !.inflight = @ + 1]

admission_quota_before_rollout(provider, org_id, t) ==
    IF provider \notin DOMAIN configs
    THEN [exc |-> Some(Exception("ValueError", "Provider " \o provider \o " is not configured")),
          state |-> state]
    ELSE
    LET config == configs[provider]
        st     == state[provider]
        reset  == window_reset(st, config, t)
        raise(type, msg, s) ==
            [exc |-> Some(Exception(type, "Provider " \o provider \o msg)),
             state |-> [state EXCEPT ![provider] = s]]
    IN  IF ~config.enabled
        THEN raise("ProviderUnavailableError", " is disabled", st)
        ELSE IF circuit_is_open(st, t)
        THEN raise("ProviderCircuitOpenError", " is cooling down", st)
        ELSE IF global_quota_exceeded(reset, config)
        THEN raise("ProviderQuotaExceededError", " global quota exceeded", reset)
        ELSE IF rollout_denies(config, org_id)
        THEN raise("ProviderUnavailableError", " is not enabled for organization " \o org_id, reset)
        ELSE IF org_quota_exceeded(reset, config, org_id)
        THEN raise("ProviderQuotaExceededError", " quota exceeded for organization " \o org_id, reset)
        ELSE IF concurrency_limit_reached(reset, config)
        THEN raise("ProviderConcurrencyLimitError", " has reached its concurrency limit", reset)
        ELSE [exc |-> None, state |-> [state EXCEPT ![provider] = admit(reset, org_id)]]

\* The gates of parse_with, evaluated under the router lock at time t: the
\* exception raised (None when the call is admitted) and the router state left.
admission(provider, org_id, t) ==
    IF provider \notin DOMAIN configs
    THEN [exc |-> Some(Exception("ValueError", "Provider " \o provider \o " is not configured")),
          state |-> state]
    ELSE
    LET config == configs[provider]
        st     == state[provider]
        reset  == window_reset(st, config, t)
        raise(type, msg, s) ==
            [exc |-> Some(Exception(type, "Provider " \o provider \o msg)),
             state |-> [state EXCEPT ![provider] = s]]
    IN  IF ~config.enabled
        THEN raise("ProviderUnavailableError", " is disabled", st)
        ELSE IF circuit_is_open(st, t)
        THEN raise("ProviderCircuitOpenError", " is cooling down", st)
        ELSE IF rollout_denies(config, org_id)
        THEN raise("ProviderUnavailableError", " is not enabled for organization " \o org_id, st)
        ELSE IF global_quota_exceeded(reset, config)
        THEN raise("ProviderQuotaExceededError", " global quota exceeded", reset)
        ELSE IF org_quota_exceeded(reset, config, org_id)
        THEN raise("ProviderQuotaExceededError", " quota exceeded for organization " \o org_id, reset)
        ELSE IF concurrency_limit_reached(reset, config)
        THEN raise("ProviderConcurrencyLimitError", " has reached its concurrency limit", reset)
        ELSE [exc |-> None, state |-> [state EXCEPT ![provider] = admit(reset, org_id)]]

\* history: the admissions of the current window, after the admission step a
count_admission(provider, org_id, a) ==
    IF provider \notin DOMAIN configs THEN admitted
    ELSE LET reset == a.state[provider].window_started_at # state[provider].window_started_at
             base  == IF reset THEN EmptyDict ELSE admitted[provider]
         IN  [admitted EXCEPT ![provider] =
                 IF IsNone(a.exc) THEN DictSet(base, org_id, DictGet(base, org_id, 0) + 1)
                 ELSE base]

on_client_failure_keeps_inflight(st, config, t) ==
    LET counted == [st EXCEPT !.failure_count = @ + 1]
    IN  IF counted.failure_count >= config.failure_threshold
        THEN [counted EXCEPT !.circuit_open_until = Some(t + config.cooldown_seconds),
                             !.failure_count = 0]
        ELSE counted

on_client_failure_trips_late(st, config, t) ==
    LET counted == [st EXCEPT !.inflight = Max(0, @ - 1), !.failure_count = @ + 1]
    IN  IF counted.failure_count > config.failure_threshold
        THEN [counted EXCEPT !.circuit_open_until = Some(t + config.cooldown_seconds),
                             !.failure_count = 0]
        ELSE counted

on_client_failure_keeps_count_on_trip(st, config, t) ==
    LET counted == [st EXCEPT !.inflight = Max(0, @ - 1), !.failure_count = @ + 1]
    IN  IF counted.failure_count >= config.failure_threshold
        THEN [counted EXCEPT !.circuit_open_until = Some(t + config.cooldown_seconds)]
        ELSE counted

on_client_failure_refunds_quota(st, config, t) ==
    LET counted == [st EXCEPT !.inflight = Max(0, @ - 1), !.failure_count = @ + 1,
                              !.window_count = Max(0, @ - 1)]
    IN  IF counted.failure_count >= config.failure_threshold
        THEN [counted EXCEPT !.circuit_open_until = Some(t + config.cooldown_seconds),
                             !.failure_count = 0]
        ELSE counted

\* bookkeeping after the client raised, at time t
on_client_failure(st, config, t) ==
    LET counted == [st EXCEPT !.inflight = Max(0, @ - 1), !.failure_count = @ + 1]
    IN  IF counted.failure_count >= config.failure_threshold
        THEN [counted EXCEPT !.circuit_open_until = Some(t + config.cooldown_seconds),
                             !.failure_count = 0]
        ELSE counted

on_client_success_keeps_failure_count(st) ==
    [st EXCEPT !.inflight = Max(0, @ - 1)]

\* bookkeeping after the client returned
on_client_success(st) ==
    [st EXCEPT !.inflight = Max(0, @ - 1), !.failure_count = 0]

\* history: the breaker of a provider before its first trip
NeverTripped == [tripped |-> FALSE, since_trip |-> 0, after_cooldown |-> 0]

\* history: a client call of provider fails now. The failure tripped the breaker
\* when it set circuit_open_until: to a new value, or to the same one with
\* failure_count reset (a failure that does not trip leaves failure_count >= 1).
count_failure(provider) ==
    LET st == state[provider]
        cooldown_over == ~IsNone(st.circuit_open_until) /\ now >= Val(st.circuit_open_until)
        failed == on_client_failure(st, configs[provider], now)
        trips == \/ failed.circuit_open_until # st.circuit_open_until
                 \/ failed.failure_count = 0
    IN  IF trips
        THEN [breaker EXCEPT ![provider] =
                 [tripped |-> TRUE, since_trip |-> 0, after_cooldown |-> 0]]
        ELSE IF breaker[provider].tripped
        THEN [breaker EXCEPT ![provider].since_trip = @ + 1,
                             ![provider].after_cooldown = IF cooldown_over THEN @ + 1 ELSE @]
        ELSE breaker

\* --------------------------------------------------------------- service
Task(job_id) == [pc |-> "start", job_id |-> job_id, job |-> None, events |-> None, exc |-> None]

except_Exception_router_errors_only(exc) ==
    exc.type \in {"ProviderUnavailableError", "ProviderQuotaExceededError",
                  "ProviderConcurrencyLimitError", "ProviderCircuitOpenError"}

\* `except Exception`: every exception the router or a client raises here is
\* an Exception (ValueError, RuntimeError and the ProviderRouterError family)
except_Exception(exc) ==
    exc.type \in {"ValueError", "RuntimeError", "ProviderUnavailableError",
                  "ProviderQuotaExceededError", "ProviderConcurrencyLimitError",
                  "ProviderCircuitOpenError"}

\* the providers a request names: the registered ones and an unregistered one
RequestProviders == (DOMAIN configs) \cup {"QWEN_LOCAL"}

reviewable_always(status) == TRUE

reviewable_unless_failed(status) == status # "FAILED"

reviewable(status) == status \in {"SUCCEEDED", "NEEDS_REVIEW"}

apply_review_keeps_status(job, decision) ==
    IF decision = "APPROVED"
    THEN [job EXCEPT !.metadata = DictSet(@, "review", "approved")]
    ELSE [job EXCEPT !.metadata = DictSet(@, "review", "rejected")]

apply_review_marks_repeats(job, decision) ==
    LET again == IF "review" \in DOMAIN job.metadata THEN " again" ELSE ""
    IN  IF decision = "APPROVED"
        THEN [job EXCEPT !.metadata = DictSet(@, "review", "approved" \o again),
                         !.status = "SUCCEEDED"]
        ELSE [job EXCEPT !.metadata = DictSet(@, "review", "rejected" \o again),
                         !.status = "FAILED"]

apply_review(job, decision) ==
    IF decision = "APPROVED"
    THEN [job EXCEPT !.metadata = DictSet(@, "review", "approved"), !.status = "SUCCEEDED"]
    ELSE [job EXCEPT !.metadata = DictSet(@, "review", "rejected"), !.status = "FAILED"]

Init ==
    /\ now = 0
    /\ configs \in ServiceRegistrations
    /\ state = [p \in DOMAIN configs |-> ProviderState(0)]
    /\ consec = [p \in DOMAIN configs |-> 0]
    /\ admitted = [p \in DOMAIN configs |-> EmptyDict]
    /\ submitted = <<>>
    /\ calls = <<>>
    /\ objs = <<>>
    /\ jobs = <<>>
    /\ tasks = <<>>
    /\ breaker = [p \in DOMAIN configs |-> NeverTripped]

\* the monotonic clock advances
Tick ==
    /\ now < MaxTime
    /\ now' = now + 1
    /\ UNCHANGED <<configs, submitted, state, consec, admitted, calls, objs, jobs, tasks, breaker>>

\* ParseService.submit_job: create the job, schedule _execute_job, return the job
submit_job(org_id, provider) ==
    /\ Len(objs) < MaxJobs
    /\ LET created == create_job(org_id, provider)
       IN  /\ objs' = created.objs
           /\ jobs' = created.jobs
           /\ tasks' = Append(tasks, Task(created.objs[created.job].id))
           /\ submitted' = Append(submitted, [org_id |-> org_id, job |-> created.job])
    /\ UNCHANGED <<now, configs, state, consec, admitted, calls, breaker>>

\* _execute_job up to its call of the router: get the job, return if absent,
\* mark_running, store.update
execute_start(i) ==
    /\ tasks[i].pc = "start"
    /\ LET got == store_get(tasks[i].job_id)
       IN  IF IsNone(got)
           THEN /\ tasks' = [tasks EXCEPT ![i].pc = "done"]
                /\ UNCHANGED <<objs, jobs>>
           ELSE /\ objs' = [objs EXCEPT ![Val(got)] = mark_running(@)]
                /\ jobs' = store_update(Val(got))
                /\ tasks' = [tasks EXCEPT ![i].pc = "parse_with", ![i].job = got]
    /\ UNCHANGED <<now, configs, submitted, state, consec, admitted, calls, breaker>>

\* the except clause of _execute_job: store.mark_failure(job, str(exc)), which
\* is mark_failed and update; or the exception leaves the task when the clause
\* does not catch it
execute_except(i, exc) ==
    IF except_Exception(exc)
    THEN /\ objs' = [objs EXCEPT ![Val(tasks[i].job)] = mark_failed(@, exc.msg)]
         /\ jobs' = store_update(Val(tasks[i].job))
         /\ tasks' = [tasks EXCEPT ![i].pc = "done", ![i].exc = Some(exc)]
    ELSE /\ tasks' = [tasks EXCEPT ![i].pc = "raised", ![i].exc = Some(exc)]
         /\ UNCHANGED <<objs, jobs>>

\* _execute_job calls router.parse_with: the gates, under the router lock
execute_parse_with(i) ==
    /\ tasks[i].pc = "parse_with"
    /\ LET job == objs[Val(tasks[i].job)]
           a   == admission(job.provider, job.org_id, now)
       IN  /\ state' = a.state
           /\ admitted' = count_admission(job.provider, job.org_id, a)
           /\ IF IsNone(a.exc)
              THEN /\ tasks' = [tasks EXCEPT ![i].pc = "client"]
                   /\ UNCHANGED <<objs, jobs>>
              ELSE execute_except(i, Val(a.exc))
    /\ UNCHANGED <<now, configs, submitted, consec, calls, breaker>>

\* the client returns events: bookkeeping of parse_with, then
\* store.mark_success(job, list(events)), which is mark_succeeded and update
client_returns(i, events) ==
    /\ tasks[i].pc = "client"
    /\ LET provider == objs[Val(tasks[i].job)].provider
       IN  /\ state' = [state EXCEPT ![provider] = on_client_success(@)]
           /\ consec' = [consec EXCEPT ![provider] = 0]
    /\ objs' = [objs EXCEPT ![Val(tasks[i].job)] = mark_succeeded(@, events)]
    /\ jobs' = store_update(Val(tasks[i].job))
    /\ tasks' = [tasks EXCEPT ![i].pc = "done", ![i].events = Some(events)]
    /\ UNCHANGED <<now, configs, submitted, admitted, calls, breaker>>

\* the client raises: bookkeeping of parse_with, re-raise, then the except clause
client_raises(i, msg) ==
    /\ tasks[i].pc = "client"
    /\ LET provider == objs[Val(tasks[i].job)].provider
       IN  /\ state' = [state EXCEPT ![provider] = on_client_failure(@, configs[provider], now)]
           /\ consec' = [consec EXCEPT ![provider] = @ + 1]
           /\ breaker' = count_failure(provider)
    /\ execute_except(i, Exception("RuntimeError", msg))
    /\ UNCHANGED <<now, configs, submitted, admitted, calls>>

\* the value review_job returns: `return None` when store.get found nothing,
\* `return job` otherwise, job being the reference store.get returned
review_job_returns(job_id) == store_get(job_id)

\* ParseService.review_job: get, the two early returns, the change of the job,
\* store.update
review_job(job_id, decision) ==
    /\ LET got == store_get(job_id)
       IN  IF IsNone(got)
           THEN UNCHANGED <<objs, jobs>>
           ELSE IF ~reviewable(objs[Val(got)].status)
           THEN UNCHANGED <<objs, jobs>>
           ELSE /\ objs' = [objs EXCEPT ![Val(got)] = apply_review(@, decision)]
                /\ jobs' = store_update(Val(got))
    /\ UNCHANGED <<now, configs, submitted, state, consec, admitted, calls, tasks, breaker>>

\* ------------------------------------------------- direct router callers
\* the number of direct calls of a run
CallBound == IF configs \in BreakerRegistrations THEN MaxBreakerCalls ELSE MaxCalls

\* a caller of ProviderRouter.parse_with (as the tests call it): the gates,
\* under the router lock; the call is rejected or its client call starts
parse_with(provider, org_id) ==
    /\ Len(calls) < CallBound
    /\ LET a == admission(provider, org_id, now)
       IN  /\ state' = a.state
           /\ admitted' = count_admission(provider, org_id, a)
           /\ calls' = Append(calls, [provider |-> provider, org_id |-> org_id,
                                      pc |-> IF IsNone(a.exc) THEN "client" ELSE "raised",
                                      events |-> None, exc |-> a.exc])
    /\ UNCHANGED <<now, configs, submitted, consec, objs, jobs, tasks, breaker>>

\* the client returns: bookkeeping under the lock, the events are returned
parse_with_returns(i, events) ==
    /\ calls[i].pc = "client"
    /\ state' = [state EXCEPT ![calls[i].provider] = on_client_success(@)]
    /\ consec' = [consec EXCEPT ![calls[i].provider] = 0]
    /\ calls' = [calls EXCEPT ![i].pc = "returned", ![i].events = Some(events)]
    /\ UNCHANGED <<now, configs, submitted, admitted, objs, jobs, tasks, breaker>>

\* the client raises: bookkeeping under the lock, the exception is re-raised
parse_with_raises(i, msg) ==
    /\ calls[i].pc = "client"
    /\ state' = [state EXCEPT ![calls[i].provider] =
                     on_client_failure(@, configs[calls[i].provider], now)]
    /\ consec' = [consec EXCEPT ![calls[i].provider] = @ + 1]
    /\ breaker' = count_failure(calls[i].provider)
    /\ calls' = [calls EXCEPT ![i].pc = "raised",
                              ![i].exc = Some(Exception("RuntimeError", msg))]
    /\ UNCHANGED <<now, configs, submitted, admitted, objs, jobs, tasks>>

\* what the clients of the direct callers return: the router passes the events
\* on as they are, two different lists tell one result from another
RouterResults == {<<>>, <<ParsedEvent(59)>>}

RouterInit ==
    /\ now = 0
    /\ configs \in Registrations
    /\ state = [p \in DOMAIN configs |-> ProviderState(0)]
    /\ consec = [p \in DOMAIN configs |-> 0]
    /\ admitted = [p \in DOMAIN configs |-> EmptyDict]
    /\ submitted = <<>>
    /\ calls = <<>>
    /\ objs = <<>>
    /\ jobs = <<>>
    /\ tasks = <<>>
    /\ breaker = [p \in DOMAIN configs |-> NeverTripped]

RouterNext ==
    \/ Tick
    \/ \E org_id \in Orgs, provider \in RequestProviders : parse_with(provider, org_id)
    \/ \E i \in 1..Len(calls), events \in RouterResults : parse_with_returns(i, events)
    \/ \E i \in 1..Len(calls), msg \in ClientErrors : parse_with_raises(i, msg)

SpecRouter == RouterInit /\ [][RouterNext]_vars

\* every rollout over the orgs, and no rollout, on an otherwise open provider
Rollouts ==
    {ProviderRollout(d, a, b) : d \in BOOLEAN, a \in SUBSET Orgs, b \in SUBSET Orgs}

RolloutRegistrations ==
    {"OPENAI" :> ProviderConfig(TRUE, None, 1, None, None, 2, 1, r) :
        r \in {None} \cup {Some(x) : x \in Rollouts}}

BreakerInit ==
    /\ now = 0
    /\ configs \in BreakerRegistrations
    /\ state = [p \in DOMAIN configs |-> ProviderState(0)]
    /\ consec = [p \in DOMAIN configs |-> 0]
    /\ admitted = [p \in DOMAIN configs |-> EmptyDict]
    /\ submitted = <<>>
    /\ calls = <<>>
    /\ objs = <<>>
    /\ jobs = <<>>
    /\ tasks = <<>>
    /\ breaker = [p \in DOMAIN configs |-> NeverTripped]

\* the calls of one org to the registered provider
BreakerNext ==
    \/ Tick
    \/ \E provider \in DOMAIN configs : parse_with(provider, "org-1")
    \/ \E i \in 1..Len(calls), events \in RouterResults : parse_with_returns(i, events)
    \/ \E i \in 1..Len(calls), msg \in ClientErrors : parse_with_raises(i, msg)

SpecBreaker == BreakerInit /\ [][BreakerNext]_vars

RolloutInit ==
    /\ now = 0
    /\ configs \in RolloutRegistrations
    /\ state = [p \in DOMAIN configs |-> ProviderState(0)]
    /\ consec = [p \in DOMAIN configs |-> 0]
    /\ admitted = [p \in DOMAIN configs |-> EmptyDict]
    /\ submitted = <<>>
    /\ calls = <<>>
    /\ objs = <<>>
    /\ jobs = <<>>
    /\ tasks = <<>>
    /\ breaker = [p \in DOMAIN configs |-> NeverTripped]

SpecRollout == RolloutInit /\ [][RouterNext]_vars

Next ==
    \/ Tick
    \/ \E org_id \in Orgs, provider \in RequestProviders : submit_job(org_id, provider)
    \/ \E i \in 1..Len(tasks) : execute_start(i)
    \/ \E i \in 1..Len(tasks) : execute_parse_with(i)
    \/ \E i \in 1..Len(tasks), events \in EventLists : client_returns(i, events)
    \/ \E i \in 1..Len(tasks), msg \in ClientErrors : client_raises(i, msg)
    \/ \E job_id \in 1..MaxJobs, decision \in ReviewDecision : review_job(job_id, decision)

Spec == Init /\ [][Next]_vars

\* job ids under which the store holds nothing (create_job draws a fresh uuid4:
\* no later job gets such an id)
UnknownIds == {0}

\* _execute_job(job_id) is started, once, for an id the store does not know
execute_job(job_id) ==
    /\ \A i \in 1..Len(tasks) : tasks[i].job_id # job_id
    /\ tasks' = Append(tasks, Task(job_id))
    /\ UNCHANGED <<now, configs, submitted, state, consec, admitted, calls, objs, jobs, breaker>>

\* a service whose provider has every gate, with tasks for known and unknown ids
ExecuteRegistrations == {EveryGate}

ExecuteInit ==
    /\ now = 0
    /\ configs \in ExecuteRegistrations
    /\ state = [p \in DOMAIN configs |-> ProviderState(0)]
    /\ consec = [p \in DOMAIN configs |-> 0]
    /\ admitted = [p \in DOMAIN configs |-> EmptyDict]
    /\ submitted = <<>>
    /\ calls = <<>>
    /\ objs = <<>>
    /\ jobs = <<>>
    /\ tasks = <<>>
    /\ breaker = [p \in DOMAIN configs |-> NeverTripped]

\* jobs for the registered provider, from an org it admits and from one its
\* rollout blocks
ExecuteNext ==
    \/ Tick
    \/ \E org_id \in Orgs, provider \in DOMAIN configs : submit_job(org_id, provider)
    \/ \E job_id \in UnknownIds : execute_job(job_id)
    \/ \E i \in 1..Len(tasks) : execute_start(i)
    \/ \E i \in 1..Len(tasks) : execute_parse_with(i)
    \/ \E i \in 1..Len(tasks), events \in RouterResults : client_returns(i, events)
    \/ \E i \in 1..Len(tasks), msg \in ClientErrors : client_raises(i, msg)
    \/ \E job_id \in 1..MaxJobs, decision \in ReviewDecision : review_job(job_id, decision)

SpecExecute == ExecuteInit /\ [][ExecuteNext]_vars

\* the next step of the background task i: its start, its call of the router,
\* the end of its client call
execute_job_step(i) ==
    /\ i <= Len(tasks)
    /\ \/ execute_start(i)
       \/ execute_parse_with(i)
       \/ \E events \in EventLists : client_returns(i, events)
       \/ \E msg \in ClientErrors : client_raises(i, msg)

\* the event loop runs every scheduled task, and every client call ends
Fairness == \A i \in 1..MaxJobs : WF_vars(execute_job_step(i))

SpecFair == Init /\ [][Next]_vars /\ Fairness

TypeOK ==
    /\ now \in 0..MaxTime
    /\ \A i \in 1..Len(objs) : objs[i].status \in JobStatus
    /\ Len(SelectSeq(tasks, LAMBDA t : t.job_id \notin UnknownIds)) = Len(objs)

\* ================================================================ claims
RECURSIVE DictSum(_)
DictSum(d) ==
    IF DOMAIN d = {} THEN 0
    ELSE LET k == CHOOSE x \in DOMAIN d : TRUE
         IN  d[k] + DictSum([x \in (DOMAIN d) \ {k} |-> d[x]])

StatusEdges ==
    {<<"PENDING", "RUNNING">>,
     <<"RUNNING", "SUCCEEDED">>, <<"RUNNING", "NEEDS_REVIEW">>, <<"RUNNING", "FAILED">>,
     <<"SUCCEEDED", "SUCCEEDED">>, <<"SUCCEEDED", "FAILED">>,
     <<"NEEDS_REVIEW", "SUCCEEDED">>, <<"NEEDS_REVIEW", "FAILED">>}

\* the step is a review_job call with this decision
ReviewStep(decision) == \E job_id \in 1..MaxJobs : review_job(job_id, decision)

\* C1: under any interleaving of submit_job, background execution and
\* review_job, every job starts PENDING and every change of its status is an
\* edge of the state machine: PENDING -> RUNNING; RUNNING -> SUCCEEDED,
\* NEEDS_REVIEW or FAILED (by the background task); SUCCEEDED or NEEDS_REVIEW ->
\* SUCCEEDED by an APPROVED review, -> FAILED by a REJECTED review; nothing
\* leaves FAILED.
C1_StatusPath ==
    [][ /\ \A r \in (Len(objs) + 1)..Len(objs') : objs'[r].status = "PENDING"
        /\ \A r \in 1..Len(objs) :
              LET old == objs[r].status
                  new == objs'[r].status
              IN  /\ old # new => <<old, new>> \in StatusEdges
                  /\ old = "FAILED" => new = "FAILED"
                  /\ old \in {"SUCCEEDED", "NEEDS_REVIEW"} /\ old # new =>
                        \/ new = "SUCCEEDED" /\ ReviewStep("APPROVED")
                        \/ new = "FAILED" /\ ReviewStep("REJECTED")
                  /\ old \in {"PENDING", "RUNNING"} /\ old # new => tasks'[r].pc # tasks[r].pc
      ]_vars

\* a job that went PENDING, RUNNING, NEEDS_REVIEW, SUCCEEDED (approved) and
\* then FAILED (rejected), while another job is still RUNNING
C1_Witness ==
    \E r, q \in 1..Len(objs) :
        /\ objs[r].status = "FAILED"
        /\ objs[r].events # <<>>
        /\ any_low_confidence(objs[r].events)
        /\ DictGet(objs[r].metadata, "review", "") = "rejected"
        /\ objs[q].status = "RUNNING"

HasOrgQuota(config, org) ==
    /\ ~IsNone(config.org_quotas)
    /\ org \in DOMAIN Val(config.org_quotas)

\* C2: for every provider, in every window (between two window resets) the
\* number of admitted requests never exceeds quota_per_window when it is set,
\* and the number admitted for an org never exceeds org_quotas[org] when the
\* org has a quota: window_count <= quota_per_window and
\* org_counts[org] <= org_quotas[org] in every reachable state.
C2_QuotaRespected ==
    \A p \in DOMAIN configs :
        /\ ~IsNone(configs[p].quota_per_window) =>
              /\ state[p].window_count <= Val(configs[p].quota_per_window)
              /\ DictSum(admitted[p]) <= Val(configs[p].quota_per_window)
        /\ \A org \in Orgs : HasOrgQuota(configs[p], org) =>
              /\ DictGet(state[p].org_counts, org, 0) <= Val(configs[p].org_quotas)[org]
              /\ DictGet(admitted[p], org, 0) <= Val(configs[p].org_quotas)[org]

\* a window that was opened by a reset is full and a call was refused for it
C2_Witness ==
    \E p \in DOMAIN configs, i \in 1..Len(calls) :
        /\ ~IsNone(configs[p].quota_per_window)
        /\ state[p].window_started_at > 0
        /\ state[p].window_count = Val(configs[p].quota_per_window)
        /\ state[p].window_count > 0
        /\ calls[i].provider = p
        /\ calls[i].pc = "raised"
        /\ Val(calls[i].exc).type = "ProviderQuotaExceededError"

\* the client calls of provider p that are executing
Executing(p) == {i \in 1..Len(calls) : calls[i].provider = p /\ calls[i].pc = "client"}

InflightBounded ==
    \A p \in DOMAIN configs :
        /\ state[p].inflight >= 0
        /\ ~IsNone(configs[p].concurrency_limit) =>
              /\ state[p].inflight <= Val(configs[p].concurrency_limit)
              /\ Cardinality(Executing(p)) <= Val(configs[p].concurrency_limit)

\* the step is a new parse_with call; NewCall is that call after its gates
ParseStep == Len(calls') = Len(calls) + 1
NewCall == calls'[Len(calls')]
Raised(c, type) == c.pc = "raised" /\ ~IsNone(c.exc) /\ Val(c.exc).type = type

\* the step is the completion of a client call of provider p
Completion(p) ==
    \E i \in 1..Len(calls) :
        calls[i].provider = p /\ calls[i].pc = "client" /\ calls'[i].pc # "client"

AtLimit(p) ==
    /\ p \in DOMAIN configs
    /\ ~IsNone(configs[p].concurrency_limit)
    /\ state[p].inflight = Val(configs[p].concurrency_limit)

\* a gate that parse_with evaluates before the concurrency gate refuses the call
EarlierGateRefuses(p, org) ==
    \/ ~configs[p].enabled
    \/ circuit_is_open(state[p], now)
    \/ rollout_denies(configs[p], org)
    \/ global_quota_exceeded(window_reset(state[p], configs[p], now), configs[p])
    \/ org_quota_exceeded(window_reset(state[p], configs[p], now), configs[p], org)

\* C3 as stated: inflight stays within 0..concurrency_limit, at most
\* concurrency_limit client calls of a provider execute at the same time, a
\* parse_with arriving while inflight equals the limit fails with
\* CONCURRENCY_LIMIT, and after a completion the concurrency gate is open.
C3_Original ==
    /\ []InflightBounded
    /\ [][ /\ ParseStep /\ AtLimit(NewCall.provider) =>
                Raised(NewCall, "ProviderConcurrencyLimitError")
           /\ \A p \in DOMAIN configs : Completion(p) =>
                (~IsNone(configs[p].concurrency_limit) =>
                    state'[p].inflight < Val(configs[p].concurrency_limit))
         ]_vars

\* C3 amended: as C3, but a parse_with arriving while inflight equals the limit
\* is refused without a client call, with CONCURRENCY_LIMIT unless one of the
\* gates evaluated before the concurrency gate (disabled, open circuit,
\* rollout, global or per-org quota) refuses it first with its own error.
C3_ConcurrencyCap ==
    /\ []InflightBounded
    /\ [][ /\ ParseStep /\ AtLimit(NewCall.provider) =>
                /\ NewCall.pc = "raised"
                /\ state'[NewCall.provider].inflight = state[NewCall.provider].inflight
                /\ Raised(NewCall, "ProviderConcurrencyLimitError")
                      <=> ~EarlierGateRefuses(NewCall.provider, NewCall.org_id)
           /\ \A p \in DOMAIN configs : Completion(p) =>
                (~IsNone(configs[p].concurrency_limit) =>
                    state'[p].inflight < Val(configs[p].concurrency_limit))
         ]_vars

\* one call was refused with CONCURRENCY_LIMIT while another was executing,
\* that one completed, and a later call was admitted
C3_Witness ==
    \E i, j, k \in 1..Len(calls) :
        /\ i < j /\ j < k
        /\ calls[i].provider = calls[j].provider /\ calls[j].provider = calls[k].provider
        /\ calls[i].pc \in {"returned", "raised"}
        /\ ~Raised(calls[i], "ProviderConcurrencyLimitError")
        /\ Raised(calls[j], "ProviderConcurrencyLimitError")
        /\ calls[k].pc = "client"

CircuitOpenAt(p) ==
    /\ ~IsNone(state[p].circuit_open_until)
    /\ now < Val(state[p].circuit_open_until)

\* C4: the failure_threshold-th consecutive failed client call of a provider
\* (no success in between) sets circuit_open_until to now + cooldown_seconds,
\* and every parse_with for an enabled provider issued while
\* now < circuit_open_until fails with CIRCUIT_OPEN without a client call.
C4_CircuitOpens ==
    [][ /\ \A p \in DOMAIN configs :
              consec'[p] = consec[p] + 1 /\ consec'[p] = configs[p].failure_threshold =>
                  /\ state'[p].circuit_open_until = Some(now + configs[p].cooldown_seconds)
                  /\ CircuitOpenAt(p)'
        /\ ParseStep /\ NewCall.provider \in DOMAIN configs =>
              (configs[NewCall.provider].enabled /\ CircuitOpenAt(NewCall.provider) =>
                  /\ Raised(NewCall, "ProviderCircuitOpenError")
                  /\ state' = state)
      ]_vars

\* failure_threshold >= 2 consecutive failures, then a call refused with CIRCUIT_OPEN
C4_Witness ==
    \E p \in DOMAIN configs, i \in 1..Len(calls) :
        /\ configs[p].failure_threshold >= 2
        /\ consec[p] = configs[p].failure_threshold
        /\ calls[i].provider = p
        /\ Raised(calls[i], "ProviderCircuitOpenError")
        /\ Cardinality({j \in 1..Len(calls) : Raised(calls[j], "RuntimeError")}) >= 2

\* the exceptions the router raises at a gate, by cause, and a client failure
FailureTypes ==
    {"ValueError", "ProviderUnavailableError", "ProviderCircuitOpenError",
     "ProviderQuotaExceededError", "ProviderConcurrencyLimitError", "RuntimeError"}

\* C5: whenever router.parse_with fails during the background execution of a
\* job (unregistered or disabled provider, rollout denial, quota, concurrency
\* limit, open circuit, client failure), the failure does not leave the
\* background task and the job is FAILED with error = the failure's message,
\* from then on.
C5_FailureRecorded ==
    \A i \in 1..Len(tasks) :
        /\ tasks[i].pc # "raised"
        /\ ~IsNone(tasks[i].exc) =>
              /\ Val(tasks[i].exc).type \in FailureTypes
              /\ tasks[i].pc = "done"
              /\ objs[Val(tasks[i].job)].status = "FAILED"
              /\ objs[Val(tasks[i].job)].error = Some(Val(tasks[i].exc).msg)
              /\ store_get(tasks[i].job_id) = tasks[i].job

\* two finished jobs, one failed by its client and one refused by the open
\* circuit
C5_Witness ==
    \E i, j \in 1..Len(tasks) :
        /\ tasks[i].pc = "done" /\ tasks[j].pc = "done"
        /\ ~IsNone(tasks[i].exc) /\ Val(tasks[i].exc).type = "RuntimeError"
        /\ ~IsNone(tasks[j].exc) /\ Val(tasks[j].exc).type = "ProviderCircuitOpenError"
        /\ objs[Val(tasks[j].job)].error = Some("Provider OPENAI is cooling down")

\* the step is the success of the provider call of task i
CallSucceeds(i) == tasks[i].pc = "client" /\ ~IsNone(tasks'[i].events)

\* C6: when the provider call of a job succeeds, the job's events become
\* exactly the returned list and its status becomes NEEDS_REVIEW if some
\* returned event has confidence < 0.6, SUCCEEDED otherwise (also for the
\* empty list and when every confidence is >= 0.6).
C6_SuccessRule ==
    [][ \A i \in 1..Len(tasks) : CallSucceeds(i) =>
            LET returned == Val(tasks'[i].events)
                job      == objs'[Val(tasks[i].job)]
                low      == \E k \in 1..Len(returned) : returned[k].confidence < 60
            IN  /\ job.events = returned
                /\ job.status = IF low THEN "NEEDS_REVIEW" ELSE "SUCCEEDED"
                /\ job.error = objs[Val(tasks[i].job)].error
                /\ job.metadata = objs[Val(tasks[i].job)].metadata
      ]_vars

\* one job NEEDS_REVIEW on a confidence of 0.59, another SUCCEEDED on 0.60
C6_Witness ==
    \E r, q \in 1..Len(objs) :
        /\ objs[r].status = "NEEDS_REVIEW" /\ objs[r].events = <<ParsedEvent(59)>>
        /\ objs[q].status = "SUCCEEDED" /\ objs[q].events = <<ParsedEvent(60)>>
        /\ objs[q].metadata = EmptyDict

\* every provider call that returned the empty list left its job SUCCEEDED
C6_EmptyListReached ==
    \E r \in 1..Len(objs) :
        objs[r].status = "SUCCEEDED" /\ objs[r].events = <<>> /\ tasks[r].events = Some(<<>>)

StoredIn(d, job_id) == \E k \in 1..Len(d) : d[k].key = job_id
RefIn(d, job_id) == d[CHOOSE k \in 1..Len(d) : d[k].key = job_id].value
Stored(job_id) == StoredIn(jobs, job_id)
StoredRef(job_id) == RefIn(jobs, job_id)

ReviewOutcome(decision) ==
    IF decision = "APPROVED" THEN [review |-> "approved", status |-> "SUCCEEDED"]
    ELSE [review |-> "rejected", status |-> "FAILED"]

Reviewed(job, decision) ==
    /\ "review" \in DOMAIN job.metadata
    /\ job.metadata["review"] = ReviewOutcome(decision).review
    /\ job.status = ReviewOutcome(decision).status

\* C7: review_job on a stored job whose status is SUCCEEDED or NEEDS_REVIEW
\* sets metadata["review"] to "approved" and status to SUCCEEDED on APPROVED,
\* to "rejected" and FAILED on REJECTED, leaves events and error alone, and
\* the updated job is what the store holds and what the call returns.
C7_ReviewRule ==
    [][ \A job_id \in 1..MaxJobs, decision \in ReviewDecision :
              review_job(job_id, decision) /\ Stored(job_id)
              /\ objs[StoredRef(job_id)].status \in {"SUCCEEDED", "NEEDS_REVIEW"} =>
                  /\ Reviewed(objs'[StoredRef(job_id)], decision)
                  /\ objs'[StoredRef(job_id)].events = objs[StoredRef(job_id)].events
                  /\ objs'[StoredRef(job_id)].error = objs[StoredRef(job_id)].error
                  /\ \A r \in 1..Len(objs) : r # StoredRef(job_id) => objs'[r] = objs[r]
                  /\ StoredIn(jobs', job_id)
                  /\ RefIn(jobs', job_id) = StoredRef(job_id)
                  /\ review_job_returns(job_id) = Some(StoredRef(job_id))
                  /\ Reviewed(objs'[Val(review_job_returns(job_id))], decision)
      ]_vars

\* a job with a low confidence was rejected, another one approved
C7_Witness ==
    \E r \in 1..Len(objs) :
        /\ any_low_confidence(objs[r].events)
        /\ Reviewed(objs[r], "REJECTED")
        /\ \E q \in 1..Len(objs) : q # r /\ Reviewed(objs[q], "APPROVED")

\* C8: review_job on a stored job that is PENDING, RUNNING or FAILED returns
\* that job and changes nothing (status, events, error, metadata, store); on
\* an unknown job id it returns None and changes nothing.
C8_ReviewNoOp ==
    [][ \A job_id \in 1..MaxJobs, decision \in ReviewDecision : review_job(job_id, decision) =>
            /\ Stored(job_id) /\ objs[StoredRef(job_id)].status \in {"PENDING", "RUNNING", "FAILED"} =>
                  /\ review_job_returns(job_id) = Some(StoredRef(job_id))
                  /\ objs' = objs /\ jobs' = jobs
            /\ ~Stored(job_id) =>
                  /\ review_job_returns(job_id) = None
                  /\ objs' = objs /\ jobs' = jobs
      ]_vars

\* review_job acts on a job that failed in execution (FAILED, an error, no
\* review mark) after another job was rejected, and changes nothing
C8_Witness ==
    \E r, q \in 1..Len(objs) :
        /\ objs[r].status = "FAILED"
        /\ ~IsNone(objs[r].error)
        /\ "review" \notin DOMAIN objs[r].metadata
        /\ Reviewed(objs[q], "REJECTED")
        /\ ENABLED (review_job(objs[r].id, "APPROVED") /\ UNCHANGED vars)

\* review_job acts on an unknown job id and changes nothing
C8_UnknownReached ==
    /\ Len(objs) = 1
    /\ ~Stored(2)
    /\ ENABLED (review_job(2, "REJECTED") /\ UNCHANGED vars)

\* C9: after any sequence of submissions, executions and reviews,
\* list_jobs(org) returns exactly the stored jobs of that org: every job
\* submitted for the org exactly once and no job of another org.
C9_ListByOrg ==
    \A org \in Orgs :
        LET listed == list_for_org(org)
        IN  /\ \A k \in 1..Len(listed) : objs[listed[k]].org_id = org
            /\ \A n \in 1..Len(submitted) :
                  Cardinality({k \in 1..Len(listed) : listed[k] = submitted[n].job})
                      = IF submitted[n].org_id = org THEN 1 ELSE 0
            /\ \A k \in 1..Len(listed) :
                  \E n \in 1..Len(submitted) : submitted[n] = [org_id |-> org, job |-> listed[k]]

\* jobs of two orgs, executed and one of them reviewed
C9_Witness ==
    /\ Len(submitted) = 2
    /\ submitted[1].org_id # submitted[2].org_id
    /\ \A i \in 1..Len(tasks) : tasks[i].pc = "done"
    /\ Len(list_for_org("org-1")) = 1
    /\ \E r \in 1..Len(objs) : "review" \in DOMAIN objs[r].metadata

\* C10: submit_job stores a new PENDING job (no events, no error, no
\* metadata) and returns it; the provider call has not started, the router is
\* not touched, the other jobs are not touched; and submit_job is possible in
\* every router state (unregistered or disabled provider, exhausted quota,
\* open circuit).
C10_SubmitReturnsPending ==
    /\ [](\A org \in Orgs, provider \in RequestProviders :
              Len(objs) < MaxJobs => ENABLED submit_job(org, provider))
    /\ [][ \A org \in Orgs, provider \in RequestProviders : submit_job(org, provider) =>
              /\ Len(submitted') = Len(submitted) + 1
              /\ LET job == objs'[submitted'[Len(submitted')].job]
                 IN  /\ job.status = "PENDING" /\ job.events = <<>> /\ IsNone(job.error)
                     /\ job.metadata = EmptyDict
                     /\ job.org_id = org /\ job.provider = provider
                     /\ ~StoredIn(jobs, job.id) /\ StoredIn(jobs', job.id)
                     /\ RefIn(jobs', job.id) = submitted'[Len(submitted')].job
                     /\ tasks'[Len(tasks')] = Task(job.id)
              /\ state' = state /\ admitted' = admitted
              /\ \A r \in 1..Len(objs) : objs'[r] = objs[r]
              /\ \A i \in 1..Len(tasks) : tasks'[i] = tasks[i]
         ]_vars

\* a job was just submitted, and returned PENDING, to a provider whose circuit
\* is open
C10_Witness ==
    /\ submitted # <<>>
    /\ LET job == objs[submitted[Len(submitted)].job]
       IN  /\ job.status = "PENDING"
           /\ tasks[submitted[Len(submitted)].job].pc = "start"
           /\ job.provider \in DOMAIN configs
           /\ circuit_is_open(state[job.provider], now)

\* the window's counters as the quota gates of a call at time `now` see them:
\* zero when the window has expired
WindowExpired(p) == now - state[p].window_started_at >= configs[p].window_seconds
CountInWindow(p) == IF WindowExpired(p) THEN 0 ELSE state[p].window_count
OrgCountInWindow(p, org) == IF WindowExpired(p) THEN 0 ELSE DictGet(state[p].org_counts, org, 0)

Fails(type, provider, msg) == Some(Exception(type, "Provider " \o provider \o msg))

\* the error of the first gate, in the order of the claim, that refuses a call
\* of org for provider p in the current state; None when every gate passes
FirstFailingGate(p, org) ==
    IF p \notin DOMAIN configs
    THEN Fails("ValueError", p, " is not configured")
    ELSE IF ~configs[p].enabled
    THEN Fails("ProviderUnavailableError", p, " is disabled")
    ELSE IF CircuitOpenAt(p)
    THEN Fails("ProviderCircuitOpenError", p, " is cooling down")
    ELSE IF ~IsNone(configs[p].rollout) /\ ~is_allowed(Val(configs[p].rollout), org)
    THEN Fails("ProviderUnavailableError", p, " is not enabled for organization " \o org)
    ELSE IF ~IsNone(configs[p].quota_per_window)
            /\ CountInWindow(p) >= Val(configs[p].quota_per_window)
    THEN Fails("ProviderQuotaExceededError", p, " global quota exceeded")
    ELSE IF HasOrgQuota(configs[p], org)
            /\ OrgCountInWindow(p, org) >= Val(configs[p].org_quotas)[org]
    THEN Fails("ProviderQuotaExceededError", p, " quota exceeded for organization " \o org)
    ELSE IF ~IsNone(configs[p].concurrency_limit)
            /\ state[p].inflight >= Val(configs[p].concurrency_limit)
    THEN Fails("ProviderConcurrencyLimitError", p, " has reached its concurrency limit")
    ELSE None

\* C11: every parse_with call fails with the error of the first failing gate
\* in the order not registered, disabled, circuit open, rollout denial, global
\* quota, per-org quota, concurrency limit, and then the client is not invoked
\* and nothing is admitted; it invokes the client exactly when no gate fails.
C11_GateOrder ==
    [][ ParseStep =>
            LET p == NewCall.provider
                expected == FirstFailingGate(p, NewCall.org_id)
            IN  /\ NewCall.exc = expected
                /\ NewCall.pc = IF IsNone(expected) THEN "client" ELSE "raised"
                /\ ~IsNone(expected) /\ p \in DOMAIN configs =>
                      /\ state'[p].inflight = state[p].inflight
                      /\ state'[p].window_count \in {state[p].window_count, CountInWindow(p)}
      ]_vars

\* an org denied by rollout was refused with PROVIDER_UNAVAILABLE although the
\* global quota of the running window was already exhausted
C11_Witness ==
    \E p \in DOMAIN configs, i, j \in 1..Len(calls) :
        /\ now = 0
        /\ i < j
        /\ calls[i].provider = p /\ calls[j].provider = p
        /\ calls[i].pc = "client"
        /\ ~IsNone(configs[p].quota_per_window)
        /\ state[p].window_count = Val(configs[p].quota_per_window)
        /\ calls[j].exc = Fails("ProviderUnavailableError", p,
                                " is not enabled for organization " \o calls[j].org_id)

\* the rule of the claim for a rollout and an org
RolloutRule(rollout, org) ==
    \/ rollout.allow_by_default /\ org \notin rollout.blocklist
    \/ ~rollout.allow_by_default /\ org \in rollout.allowlist

RolloutDenial(p, org) ==
    Fails("ProviderUnavailableError", p, " is not enabled for organization " \o org)

\* C12: an org passes the rollout gate of a provider iff the provider has no
\* rollout, or allow_by_default is true and the org is not in the blocklist, or
\* allow_by_default is false and the org is in the allowlist; the allowlist is
\* ignored when allow_by_default is true, the blocklist when it is false.
C12_RolloutRule ==
    /\ [](\A p \in DOMAIN configs, org \in Orgs : ~IsNone(configs[p].rollout) =>
            LET r == Val(configs[p].rollout)
            IN  /\ is_allowed(r, org) <=> RolloutRule(r, org)
                /\ r.allow_by_default =>
                      \A a \in SUBSET Orgs :
                          is_allowed([r EXCEPT !.allowlist = a], org) = is_allowed(r, org)
                /\ ~r.allow_by_default =>
                      \A b \in SUBSET Orgs :
                          is_allowed([r EXCEPT !.blocklist = b], org) = is_allowed(r, org))
    /\ [][ ParseStep /\ NewCall.provider \in DOMAIN configs
           /\ configs[NewCall.provider].enabled /\ ~CircuitOpenAt(NewCall.provider) =>
              LET p == NewCall.provider
                  org == NewCall.org_id
              IN  NewCall.exc = RolloutDenial(p, org)
                      <=> /\ ~IsNone(configs[p].rollout)
                          /\ ~RolloutRule(Val(configs[p].rollout), org)
         ]_vars

\* allow_by_default is true and org-1 is in the allowlist and the blocklist:
\* org-1 was refused at the rollout gate, org-2 was admitted
C12_Witness ==
    \E p \in DOMAIN configs, i, j \in 1..Len(calls) :
        /\ ~IsNone(configs[p].rollout)
        /\ Val(configs[p].rollout) = ProviderRollout(TRUE, {"org-1"}, {"org-1"})
        /\ calls[i].provider = p /\ calls[i].org_id = "org-1"
        /\ calls[i].exc = RolloutDenial(p, "org-1")
        /\ calls[j].provider = p /\ calls[j].org_id = "org-2"
        /\ calls[j].pc = "client"

\* allow_by_default is false and org-1 is in the allowlist and the blocklist:
\* org-1 was admitted
C12_BlocklistIgnoredReached ==
    \E p \in DOMAIN configs, i \in 1..Len(calls) :
        /\ ~IsNone(configs[p].rollout)
        /\ Val(configs[p].rollout) = ProviderRollout(FALSE, {"org-1"}, {"org-1"})
        /\ calls[i].provider = p /\ calls[i].org_id = "org-1"
        /\ calls[i].pc = "returned"

\* a provider without rollout admitted both orgs
C12_NoRolloutReached ==
    \E p \in DOMAIN configs, i, j \in 1..Len(calls) :
        /\ IsNone(configs[p].rollout)
        /\ calls[i].provider = p /\ calls[i].org_id = "org-1" /\ calls[i].pc = "client"
        /\ calls[j].provider = p /\ calls[j].org_id = "org-2" /\ calls[j].pc = "client"

\* the circuit of p was opened and its cooldown is over
CooldownOver(p) ==
    /\ ~IsNone(state[p].circuit_open_until)
    /\ now >= Val(state[p].circuit_open_until)

\* C13: once now >= circuit_open_until, with nothing else done to the router,
\* parse_with does not fail with CIRCUIT_OPEN: a call that passes the other
\* gates invokes the client, and when the client succeeds the call returns the
\* client's events.
C13_CircuitCloses ==
    [][ /\ ParseStep /\ NewCall.provider \in DOMAIN configs /\ CooldownOver(NewCall.provider) =>
              /\ ~Raised(NewCall, "ProviderCircuitOpenError")
              /\ IsNone(FirstFailingGate(NewCall.provider, NewCall.org_id)) =>
                    /\ NewCall.pc = "client"
                    /\ state'[NewCall.provider].inflight = state[NewCall.provider].inflight + 1
        /\ \A i \in 1..Len(calls), events \in RouterResults : parse_with_returns(i, events) =>
              /\ calls'[i].pc = "returned"
              /\ calls'[i].events = Some(events)
              /\ IsNone(calls'[i].exc)
      ]_vars

\* a client failure tripped the breaker, a call was refused with CIRCUIT_OPEN,
\* and after the cooldown a call invoked the client and returned its events
C13_Witness ==
    \E p \in DOMAIN configs, i, j, k \in 1..Len(calls) :
        /\ i < j /\ j < k
        /\ calls[i].provider = p /\ calls[j].provider = p /\ calls[k].provider = p
        /\ Raised(calls[i], "RuntimeError")
        /\ Raised(calls[j], "ProviderCircuitOpenError")
        /\ calls[k].pc = "returned" /\ calls[k].events = Some(<<ParsedEvent(59)>>)
        /\ CooldownOver(p)

\* C14: review_job with a decision on a job whose status is SUCCEEDED or
\* NEEDS_REVIEW leaves status and metadata["review"] as that decision sets
\* them, and the same call made again on the job as the first call left it
\* leaves status and metadata["review"] as they are (APPROVED twice gives
\* SUCCEEDED and "approved", REJECTED twice gives FAILED and "rejected").
C14_ReviewIdempotent ==
    [][ \A job_id \in 1..MaxJobs, decision \in ReviewDecision :
            review_job(job_id, decision) /\ Stored(job_id) =>
                LET before == objs[StoredRef(job_id)]
                    after  == objs'[StoredRef(job_id)]
                IN  /\ before.status \in {"SUCCEEDED", "NEEDS_REVIEW"} => Reviewed(after, decision)
                    /\ Reviewed(before, decision) =>
                          /\ after.status = before.status
                          /\ after.metadata["review"] = before.metadata["review"]
                          /\ Reviewed(after, decision)
      ]_vars

\* a job was approved and review_job with APPROVED acts on it again, another
\* job was rejected and review_job with REJECTED acts on it again: nothing changes
C14_Witness ==
    \E r, q \in 1..Len(objs) :
        /\ Reviewed(objs[r], "APPROVED")
        /\ ENABLED (review_job(objs[r].id, "APPROVED") /\ UNCHANGED vars)
        /\ Reviewed(objs[q], "REJECTED")
        /\ ENABLED (review_job(objs[q].id, "REJECTED") /\ UNCHANGED vars)

Settled(r) == r <= Len(objs) /\ objs[r].status \in {"SUCCEEDED", "NEEDS_REVIEW", "FAILED"}

\* C15: when the event loop runs every background task and every client call
\* returns or fails, every submitted job eventually has a status in
\* {SUCCEEDED, NEEDS_REVIEW, FAILED}, whatever submissions, executions and
\* reviews are interleaved: from every point of a behaviour a state follows in
\* which every job submitted so far is settled (jobs are never removed, so
\* that state has the jobs submitted at that point among its settled jobs).
C15_EventuallySettled == []<>(\A r \in 1..Len(objs) : Settled(r))

\* every job is settled: one refused by the router, one completed by its
\* client and then reviewed
C15_Witness ==
    /\ Len(objs) = MaxJobs
    /\ \A r \in 1..Len(objs) : Settled(r)
    /\ \E r \in 1..Len(objs) :
          objs[r].status = "FAILED" /\ ~IsNone(tasks[r].exc)
          /\ Val(tasks[r].exc).type # "RuntimeError"
    /\ \E r \in 1..Len(objs) : ~IsNone(tasks[r].events) /\ "review" \in DOMAIN objs[r].metadata

\* 1 when the step admits a call of provider p, else 0
Admits(p) == IF ParseStep /\ NewCall.provider = p /\ NewCall.pc = "client" THEN 1 ELSE 0

\* 1 when the step is the completion of a client call of provider p, else 0
Completes(p) == IF Completion(p) THEN 1 ELSE 0

\* C16: inflight changes only by +1 at the admission of a call and by -1 at the
\* completion of a call, by success or by failure; refused calls, window resets
\* and the clock leave it alone; so inflight is the number of admitted calls
\* that have not completed, 0 when none is in progress.
C16_InflightNetZero ==
    /\ [](\A p \in DOMAIN configs : state[p].inflight = Cardinality(Executing(p)))
    /\ [][ \A p \in DOMAIN configs :
              state'[p].inflight = state[p].inflight + Admits(p) - Completes(p)
         ]_vars

\* two calls are in progress, the second admitted by a later window than the
\* first, and a third call was refused: inflight is 2, the window counts 1
C16_Witness ==
    \E p \in DOMAIN configs, i \in 1..Len(calls) :
        /\ calls[i].provider = p /\ Raised(calls[i], "ProviderQuotaExceededError")
        /\ Cardinality(Executing(p)) = 2
        /\ state[p].inflight = 2
        /\ state[p].window_started_at > 0
        /\ state[p].window_count = 1

\* a call succeeded, a call failed, a third one is in progress: inflight is 1
C16_CompletionsReached ==
    \E p \in DOMAIN configs, i, j \in 1..Len(calls) :
        /\ calls[i].provider = p /\ calls[i].pc = "returned"
        /\ calls[j].provider = p /\ Raised(calls[j], "RuntimeError")
        /\ Cardinality(Executing(p)) = 1
        /\ state[p].inflight = 1

\* C17: in every reachable state and for every provider, window_count is the
\* sum of the values of org_counts: admission adds 1 to both, a window reset
\* clears both.
C17_WindowCountIsSum ==
    \A p \in DOMAIN configs : state[p].window_count = DictSum(state[p].org_counts)

\* a window opened by a reset, after a window that had admissions, holds one
\* admission: window_count is 1 and org_counts has the one org, at 1
C17_Witness ==
    \E p \in DOMAIN configs, i, j \in 1..Len(calls) :
        /\ i < j
        /\ calls[i].provider = p /\ calls[i].exc = None
        /\ calls[j].provider = p /\ calls[j].pc = "client"
        /\ state[p].window_started_at > 0
        /\ state[p].window_count = 1
        /\ state[p].org_counts = (calls[j].org_id :> 1)

\* a window holds admissions of two orgs
C17_TwoOrgsReached ==
    \E p \in DOMAIN configs :
        /\ state[p].window_count = 2
        /\ state[p].org_counts = ("org-1" :> 1 @@ "org-2" :> 1)

\* the step is the completion of call i, by success or by failure
Succeeds(i) == calls[i].pc = "client" /\ calls'[i].pc = "returned"
FailsInClient(i) == calls[i].pc = "client" /\ calls'[i].pc = "raised"

\* C18: a successful client call sets failure_count to 0; a failed one
\* increments it and, when the incremented value reaches failure_threshold,
\* resets it to 0 and sets circuit_open_until to now + cooldown_seconds (and
\* otherwise leaves circuit_open_until alone); no other step changes
\* failure_count; failure_count < failure_threshold in every state; the
\* caller of a failed call gets the client's failure. Checked for
\* failure_threshold >= 1.
C18_FailureCountRule ==
    /\ [](\A p \in DOMAIN configs :
              state[p].failure_count >= 0
              /\ state[p].failure_count < configs[p].failure_threshold)
    /\ [][ /\ \A i \in 1..Len(calls) : Succeeds(i) =>
                  state'[calls[i].provider].failure_count = 0
           /\ \A i \in 1..Len(calls) : FailsInClient(i) =>
                  LET p == calls[i].provider
                      n == state[p].failure_count + 1
                  IN  /\ IF n >= configs[p].failure_threshold
                         THEN /\ state'[p].failure_count = 0
                              /\ state'[p].circuit_open_until =
                                     Some(now + configs[p].cooldown_seconds)
                         ELSE /\ state'[p].failure_count = n
                              /\ state'[p].circuit_open_until = state[p].circuit_open_until
                      /\ \E msg \in ClientErrors :
                             calls'[i].exc = Some(Exception("RuntimeError", msg))
           /\ \A p \in DOMAIN configs : ~Completion(p) =>
                  /\ state'[p].failure_count = state[p].failure_count
                  /\ state'[p].circuit_open_until = state[p].circuit_open_until
         ]_vars

\* a provider with failure_threshold 2: a failure, a success, a failure; the
\* circuit never opened and failure_count is 1
C18_Witness ==
    \E p \in DOMAIN configs, i \in 1..Len(calls) :
        /\ configs[p].failure_threshold = 2
        /\ calls[i].provider = p /\ calls[i].pc = "returned"
        /\ Cardinality({j \in 1..Len(calls) :
                           calls[j].provider = p /\ Raised(calls[j], "RuntimeError")}) = 2
        /\ IsNone(state[p].circuit_open_until)
        /\ state[p].failure_count = 1

\* the second consecutive failure opened the circuit and reset failure_count
C18_TripReached ==
    \E p \in DOMAIN configs :
        /\ configs[p].failure_threshold = 2
        /\ consec[p] = 2
        /\ state[p].failure_count = 0
        /\ state[p].circuit_open_until = Some(now + configs[p].cooldown_seconds)

\* the quota counters of provider p
Counters(st) ==
    [window_started_at |-> st.window_started_at, window_count |-> st.window_count,
     org_counts |-> st.org_counts]

\* the same after the wholesale reset at the current time
ResetCounters == [window_started_at |-> now, window_count |-> 0, org_counts |-> EmptyDict]

\* C20: window_count and org_counts change only by +1 (for the admitted org) at
\* an admission and by the reset of the whole window to zero, which happens
\* only in a call made when now - window_started_at >= window_seconds; a
\* refused call never increments them; a completion, by success or by failure,
\* leaves them as they are, and so does every step that is not a call for the
\* provider.
C20_QuotaNotRefunded ==
    [][ \A p \in DOMAIN configs :
            LET old == Counters(state[p])
                new == Counters(state'[p])
                base == IF WindowExpired(p) THEN ResetCounters ELSE old
            IN  IF ParseStep /\ NewCall.provider = p
                THEN IF NewCall.pc = "client"
                     THEN /\ new.window_started_at = base.window_started_at
                          /\ new.window_count = base.window_count + 1
                          /\ new.org_counts =
                                 DictSet(base.org_counts, NewCall.org_id,
                                         DictGet(base.org_counts, NewCall.org_id, 0) + 1)
                     ELSE new \in {old, base}
                ELSE new = old
      ]_vars

\* a call was admitted and failed in its client; the next call in the same
\* window was refused by the quota the failed call had used
C20_Witness ==
    \E p \in DOMAIN configs, i, j \in 1..Len(calls) :
        /\ now = 0
        /\ i < j
        /\ calls[i].provider = p /\ Raised(calls[i], "RuntimeError")
        /\ calls[j].provider = p /\ Raised(calls[j], "ProviderQuotaExceededError")
        /\ ~CircuitOpenAt(p)
        /\ state[p].window_count = Val(configs[p].quota_per_window)

\* the failure of the step opens the circuit of provider p: it sets
\* circuit_open_until (to a new value, or to the same one with failure_count reset)
Trips(p) ==
    \/ state'[p].circuit_open_until # state[p].circuit_open_until
    \/ state'[p].failure_count = 0

\* C19 as stated: for failure_threshold >= 2 and in any interleaving of
\* concurrent calls, after the breaker has tripped and its cooldown has
\* expired, the first failed call after the cooldown does not set
\* circuit_open_until again.
C19_Original ==
    [][ \A i \in 1..Len(calls) :
            LET p == calls[i].provider
            IN  FailsInClient(i) /\ configs[p].failure_threshold >= 2
                /\ breaker[p].tripped /\ CooldownOver(p)
                /\ breaker[p].after_cooldown = 0 =>
                    ~Trips(p)
      ]_vars

\* C19 amended: for failure_threshold >= 2 and in any interleaving of
\* concurrent calls, after the breaker has tripped, a failed call sets
\* circuit_open_until again only as the failure_threshold-th consecutive failure
\* counted since the trip (or since a later success); the first failed call
\* since the trip never does, nor does a failed call that follows a success;
\* the failures of calls that were in progress at the trip and fail during the
\* cooldown count.
C19_NoImmediateRetrip ==
    /\ [](\A p \in DOMAIN configs :
              breaker[p].tripped /\ breaker[p].since_trip = 0 => state[p].failure_count = 0)
    /\ [][ \A i \in 1..Len(calls) :
              LET p == calls[i].provider
              IN  FailsInClient(i) /\ configs[p].failure_threshold >= 2 /\ breaker[p].tripped =>
                      /\ breaker[p].since_trip = 0 => ~Trips(p)
                      /\ consec[p] = 0 => ~Trips(p)
                      /\ Trips(p) <=> state[p].failure_count + 1 = configs[p].failure_threshold
                      /\ Trips(p) => /\ breaker[p].since_trip + 1 >= configs[p].failure_threshold
                                     /\ consec[p] + 1 >= configs[p].failure_threshold
         ]_vars

\* the breaker tripped, the cooldown is over, and the one call that failed
\* since the trip, after the cooldown, left the circuit closed
C19_Witness ==
    \E p \in DOMAIN configs :
        /\ configs[p].failure_threshold >= 2
        /\ breaker[p] = [tripped |-> TRUE, since_trip |-> 1, after_cooldown |-> 1]
        /\ CooldownOver(p)
        /\ state[p].failure_count = 1

\* the breaker tripped a second time, on the second failure since the trip
C19_RetripReached ==
    \E p \in DOMAIN configs :
        /\ configs[p].failure_threshold >= 2
        /\ breaker[p] = [tripped |-> TRUE, since_trip |-> 0, after_cooldown |-> 0]
        /\ consec[p] = 4
        /\ now > 0
        /\ state[p].circuit_open_until = Some(now + configs[p].cooldown_seconds)

\* ------------------------------------------------------------------- C21
\* the ParseJob values callers hold: the one each submit_job returned and the
\* ones get / list_for_org return in this state
HeldBySubmitters == {submitted[n].job : n \in 1..Len(submitted)}
ReturnedByReads == {jobs[k].value : k \in 1..Len(jobs)}

\* C21: a ParseJob value obtained from get, list_for_org or submit_job is not
\* changed by later operations on the same job (the background task's
\* mark_running / mark_success / mark_failure, or review_job).
C21_ReadsAreSnapshots ==
    [][ \A job \in HeldBySubmitters \cup ReturnedByReads : objs'[job] = objs[job] ]_vars

\* the value submit_job returned as PENDING now shows the outcome of the
\* background task and of a review, although its holder read nothing again, and
\* it is the very object get returns
C21_AliasReached ==
    \E n \in 1..Len(submitted) :
        LET job == submitted[n].job
        IN  /\ objs[job].status = "FAILED"
            /\ "review" \in DOMAIN objs[job].metadata
            /\ store_get(objs[job].id) = Some(job)

\* ------------------------------------------------------------------- C22
\* the jobs get_job and list_jobs can return in this state
Observable == {objs[jobs[k].value] : k \in 1..Len(jobs)}

\* the events the provider call made for the job returned, if it returned
\* (submit_job creates job id and its task together: task id executes job id)
ReturnedFor(job) == tasks[job.id].events

\* the message of the failure of the provider call made for the job, if it failed
FailureOf(job) == IF IsNone(tasks[job.id].exc) THEN None ELSE Some(Val(tasks[job.id].exc).msg)

\* C22 as stated: every observable FAILED job has an error message and every
\* observable SUCCEEDED job carries the event list its provider call returned,
\* also when a REJECTED review made the job FAILED.
C22_Original ==
    \A job \in Observable :
        /\ job.status = "FAILED" => ~IsNone(job.error)
        /\ job.status = "SUCCEEDED" => ReturnedFor(job) = Some(job.events)

\* C22 amended: every observable job that the background execution left FAILED
\* has the failure's message as error, and every observable SUCCEEDED job
\* carries the full event list its provider call returned; a job driven to
\* FAILED by a REJECTED review has metadata["review"] = "rejected", keeps the
\* event list its provider call returned and has no error message.
C22_TerminalStatusIsComplete ==
    \A job \in Observable :
        /\ job.status = "FAILED" =>
              \/ /\ ~IsNone(job.error)
                 /\ job.error = FailureOf(job)
                 /\ "review" \notin DOMAIN job.metadata
              \/ /\ IsNone(job.error)
                 /\ DictGet(job.metadata, "review", "") = "rejected"
                 /\ ReturnedFor(job) = Some(job.events)
        /\ job.status = "SUCCEEDED" =>
              /\ ReturnedFor(job) = Some(job.events)
              /\ IsNone(job.error)

\* get_job shows one job FAILED by a REJECTED review, without error and with
\* its events, another FAILED by its execution, with the message, and
\* list_jobs shows both
C22_Witness ==
    \E rejected, failed \in Observable :
        /\ rejected.status = "FAILED" /\ IsNone(rejected.error)
        /\ rejected.events # <<>>
        /\ DictGet(rejected.metadata, "review", "") = "rejected"
        /\ failed.status = "FAILED" /\ ~IsNone(failed.error)
        /\ failed.org_id = rejected.org_id
        /\ Len(list_for_org(failed.org_id)) = 2

\* an approved job is observed SUCCEEDED with the low-confidence event its
\* provider call returned
C22_ApprovedReached ==
    \E job \in Observable :
        /\ job.status = "SUCCEEDED"
        /\ job.events = <<ParsedEvent(59)>>
        /\ DictGet(job.metadata, "review", "") = "approved"

\* ------------------------------------------------------------------- C23
\* the status the store holds for job_id, or None when the job is absent
StoredStatus(job_id) ==
    IF IsNone(store_get(job_id)) THEN None ELSE Some(objs[Val(store_get(job_id))].status)

\* task i is between its call of router.parse_with and the end of that call
InRouter(i) == tasks[i].pc \in {"parse_with", "client"}

\* the step is a step of task i
StepOf(i) == i <= Len(tasks) /\ tasks'[i] # tasks[i]

\* C23: the RUNNING status of a job is in the store before router.parse_with is
\* called for it: while a task is calling the router or its client is running,
\* the stored status of its job is RUNNING; the router's counters (quota,
\* inflight) change only in such a step of a task; and a task whose job is
\* absent from the store ends without a router call and without any change.
C23_RunningBeforeRouter ==
    /\ [](\A i \in 1..Len(tasks) : InRouter(i) => StoredStatus(tasks[i].job_id) = Some("RUNNING"))
    /\ [][ /\ state' # state =>
                \E i \in 1..Len(tasks) :
                    /\ StepOf(i) /\ InRouter(i)
                    /\ StoredStatus(tasks[i].job_id) = Some("RUNNING")
           /\ \A i \in 1..Len(tasks) :
                  /\ StepOf(i) /\ tasks'[i].pc = "client" =>
                        /\ tasks[i].pc = "parse_with"
                        /\ StoredStatus(tasks[i].job_id) = Some("RUNNING")
                  /\ StepOf(i) /\ tasks[i].pc = "start" =>
                        IF IsNone(StoredStatus(tasks[i].job_id))
                        THEN /\ tasks'[i].pc = "done"
                             /\ UNCHANGED <<state, admitted, objs, jobs>>
                        ELSE /\ tasks'[i].pc = "parse_with"
                             /\ StoredStatus(tasks[i].job_id)' = Some("RUNNING")
                             /\ UNCHANGED <<state, admitted>>
      ]_vars

\* the task of an unknown id has ended, and the client of a stored job runs
\* with a quota unit and an inflight slot taken while the store shows RUNNING
C23_Witness ==
    \E i, j \in 1..Len(tasks) :
        /\ tasks[i].job_id \in UnknownIds /\ tasks[i].pc = "done"
        /\ tasks[j].pc = "client"
        /\ StoredStatus(tasks[j].job_id) = Some("RUNNING")
        /\ LET p == objs[Val(tasks[j].job)].provider
           IN  state[p].inflight = 1 /\ state[p].window_count = 1

\* a task waits to start while the store still shows its job PENDING, and the
\* router has not been called for it
C23_PendingReached ==
    \E i \in 1..Len(tasks) :
        /\ tasks[i].pc = "start"
        /\ StoredStatus(tasks[i].job_id) = Some("PENDING")
        /\ \A p \in DOMAIN state : state[p].window_count = 0 /\ state[p].inflight = 0

====
